---- MODULE Spec2Model ----
(***************************************************************************)
(* Model of the voice agent of VishvarajD/motivai-agent.                   *)
(*                                                                         *)
(* Client (src/src/pages/login.tsx, component App, lines 71-606): the      *)
(* React state of the component, the refs, and the three platform          *)
(* facilities it drives: speech recognition objects, the speech synthesis  *)
(* queue and the reveal timers.  Every event handler is one action; the    *)
(* render and the effects that a handler's state updates cause are part    *)
(* of the action when React runs them synchronously (discrete user events, *)
(* the typing effect), and a separate action when React schedules them     *)
(* (the initialisation effect after a non-discrete update).                *)
(*                                                                         *)
(* Texts are sequences of tokens; each literal of the source is cut to     *)
(* its first two or three tokens.                                          *)
(*                                                                         *)
(* Server (src/src/pages/api/motivate.ts, handler, lines 29-161): each     *)
(* invocation of the handler with its position among the awaits, and the   *)
(* interactions collection; the first name its prompt takes from the       *)
(* userName of the request.  The handler of src/src/pages/api/stats.ts     *)
(* with its two reads of the same collection.                              *)
(***************************************************************************)
EXTENDS Integers, Sequences, FiniteSets, Bags, TLC

\* ------------------------------------------------------------------ bounds
\* a capture is started only while fewer than this many recognition objects
\* that an effect run replaced are still to end
MaxOld == 1
\* the same bound in the specification of the capture controller
MaxOldCapture == 2
\* generation requests in flight
MaxReq == 1
\* the same bound in the specification of the overlapping turns
MaxReqOverlap == 2
\* utterances in the synthesis queue
MaxQueue == 2
\* end/error events of cancelled utterances not yet delivered
MaxCancelEv == 1
\* the length of a generated text
MaxText == 2
\* the invocations of the /api/motivate handler
MaxHandlers == 2
\* the length of a voice list given to the voice resolution
MaxVoices == 3
\* the results one capture may deliver
MaxSent == 2
\* the characters of a userName
MaxName == 4


\* ------------------------------------------------------------------- texts
Greeting == <<"H", "H", "e">>
ListeningText == <<"Li", "s">>
ThinkingText == <<"Th", "i">>
NotInitText == <<"Sp", "e">>
UnsupportedText == <<"Yo", "u">>
MicErrText == <<"Co", "InvalidStateError">>
MicErrSpoken == <<"Co", "u">>
SorrySpoken == <<"So", "r">>
RecErrors == {"no-speech"}
GenErrors == {"500", "network"}
\* the messages a 200 reply of /api/motivate can carry
Messages == {<<"Ge", "t">>, <<>>}

SorryText(detail) == <<"So", detail>>
RecErrText(reason) == <<"Er", reason>>

Languages == {"en-US", "mr-IN"}

\* the voices the platform enumerates once they are loaded
VoiceList ==
  << [uri |-> "v1", lang |-> "en-US", google |-> FALSE],
     [uri |-> "v2", lang |-> "en-US", google |-> TRUE] >>

Platforms == {"full", "noRecognition", "none"}

\* ------------------------------------------------------------------- state
VARIABLES
  platform,          \* which Web Speech facilities window offers
  status,            \* useSession().status
  mounted,           \* App is mounted
  listening, isSpeaking, isLoading,
  aiResponse, displayedAiResponse,
  voices, selectedVoiceURI, selectedLanguage,
  typingTimeoutRef,  \* the pending timer the ref names (NoTimer: none, or one
                     \* that fired or was cleared, which clearTimeout ignores)
  timers,            \* pending setTimeout(typeText) callbacks
  synthRef,          \* synthRef.current is set
  recognitionRef,    \* the object recognitionRef.current names
  oldRecognitions,   \* replaced recognition objects that have not ended
  effectClosure,     \* selectedLanguage, selectedVoiceURI of the last effect run
  onvoiceschanged,   \* synth.onvoiceschanged is populateVoiceList
  hasCleanup,        \* the last effect run returned its cleanup
  effectPending,     \* a dependency of the initialisation effect changed
  platformVoices,    \* what synth.getVoices() returns
  synthQueue,        \* utterances handed to synth.speak, head first: whether
                     \* each has begun
  cancelEvents,      \* cancelled utterances whose end/error is not delivered
  requests,          \* getAiMotivationalResponse calls awaiting a fetch
  calls,             \* the platform calls of the last step, in order, and
                     \* what each speak and fetch was given; a delivered
                     \* recognition result is logged before its handler runs
  totalUsers, totalQueries,  \* the usage counters, Unknown for null
  fetchStatsPending, \* the fetchStats of the statistics effect is in flight
  userDone,          \* the user has left the controls alone for good
  utterance,         \* a voice resolution of speakText: what it read and
                     \* the voice it gave the utterance
  handlers,          \* the invocations of the /api/motivate handler
  interactions,      \* the documents of the interactions collection
  greeting,          \* a userName of a request body and what the prompt of
                     \* /api/motivate takes from it
  stats              \* an invocation of the /api/stats handler

vars == << platform, status, mounted, listening, isSpeaking, isLoading,
           aiResponse, displayedAiResponse, voices, selectedVoiceURI,
           selectedLanguage, typingTimeoutRef, timers, synthRef,
           recognitionRef, oldRecognitions, effectClosure, onvoiceschanged,
           hasCleanup, effectPending, platformVoices, synthQueue,
           cancelEvents, requests, calls, totalUsers, totalQueries,
           fetchStatsPending, userDone, utterance, handlers, interactions,
           greeting, stats >>

\* the state as one record, so that a handler is a function on it
W ==
  [ platform |-> platform, status |-> status, mounted |-> mounted,
    listening |-> listening, isSpeaking |-> isSpeaking, isLoading |-> isLoading,
    aiResponse |-> aiResponse, displayedAiResponse |-> displayedAiResponse,
    voices |-> voices, selectedVoiceURI |-> selectedVoiceURI,
    selectedLanguage |-> selectedLanguage,
    typingTimeoutRef |-> typingTimeoutRef, timers |-> timers,
    synthRef |-> synthRef, recognitionRef |-> recognitionRef,
    oldRecognitions |-> oldRecognitions, effectClosure |-> effectClosure,
    onvoiceschanged |-> onvoiceschanged, hasCleanup |-> hasCleanup,
    effectPending |-> effectPending, platformVoices |-> platformVoices,
    synthQueue |-> synthQueue, cancelEvents |-> cancelEvents,
    requests |-> requests, calls |-> <<>>,
    totalUsers |-> totalUsers, totalQueries |-> totalQueries,
    fetchStatsPending |-> fetchStatsPending, userDone |-> userDone ]

\* React drops state updates of an unmounted component
Commit(w) ==
  LET live == w.mounted
  IN /\ platform' = w.platform
     /\ status' = w.status
     /\ mounted' = w.mounted
     /\ listening' = IF live THEN w.listening ELSE listening
     /\ isSpeaking' = IF live THEN w.isSpeaking ELSE isSpeaking
     /\ isLoading' = IF live THEN w.isLoading ELSE isLoading
     /\ aiResponse' = IF live THEN w.aiResponse ELSE aiResponse
     /\ displayedAiResponse' =
          IF live THEN w.displayedAiResponse ELSE displayedAiResponse
     /\ voices' = IF live THEN w.voices ELSE voices
     /\ selectedVoiceURI' = IF live THEN w.selectedVoiceURI ELSE selectedVoiceURI
     /\ selectedLanguage' = IF live THEN w.selectedLanguage ELSE selectedLanguage
     /\ typingTimeoutRef' = w.typingTimeoutRef
     /\ timers' = w.timers
     /\ synthRef' = w.synthRef
     /\ recognitionRef' = w.recognitionRef
     /\ oldRecognitions' = w.oldRecognitions
     /\ effectClosure' = w.effectClosure
     /\ onvoiceschanged' = w.onvoiceschanged
     /\ hasCleanup' = w.hasCleanup
     /\ effectPending' = w.effectPending
     /\ platformVoices' = w.platformVoices
     /\ synthQueue' = w.synthQueue
     /\ cancelEvents' = w.cancelEvents
     /\ requests' = w.requests
     /\ calls' = w.calls
     /\ totalUsers' = IF live THEN w.totalUsers ELSE totalUsers
     /\ totalQueries' = IF live THEN w.totalQueries ELSE totalQueries
     /\ fetchStatsPending' = w.fetchStatsPending
     /\ userDone' = w.userDone
     /\ UNCHANGED utterance
     /\ UNCHANGED <<handlers, interactions, greeting, stats>>

NoTimer == [text |-> <<>>, i |-> 0]

\* the usage counters: null, and the body of a 200 reply of /api/stats
Unknown == "null"
StatsData == {[totalUsers |-> "1", totalQueries |-> "2"]}

\* an entry of calls
Call(op, text, lang) == [op |-> op, text |-> text, lang |-> lang]
Did(op) == Call(op, <<>>, "")

\* the log entry of a result event of the recognition r: whether its first
\* result is final, the most likely alternative of that result and the lang
\* attribute the capture was started with
Result(r, results) ==
  Call(IF results[1].isFinal THEN "result" ELSE "interim",
       results[1].alternatives[1], r.tag)

\* a recognition object as the effect makes it (lines 247-251): lang is the
\* selectedLanguage its handlers closed over, tag its lang attribute, sent the
\* number of results its capture has delivered
newRecognitionContinuous(lang) ==
  [state |-> "idle", lang |-> lang, tag |-> lang,
   continuous |-> TRUE, interimResults |-> FALSE, sent |-> 0]

newRecognition(lang) ==
  [state |-> "idle", lang |-> lang, tag |-> lang,
   continuous |-> FALSE, interimResults |-> FALSE, sent |-> 0]

NoRecognition == [newRecognition("en-US") EXCEPT !.state = "null"]

\* recognition.start() after line 361 set the lang attribute
start(r, lang) == [r EXCEPT !.state = "active", !.tag = lang, !.sent = 0]

\* the results of a SpeechRecognitionEvent: each has its alternatives, most
\* likely first
FinalResult ==
  [isFinal |-> TRUE, alternatives |-> << <<"h", "i">>, <<"h", "y">> >>]

InterimResult == [isFinal |-> FALSE, alternatives |-> << <<"h">> >>]

\* the events a started recognition may deliver: interim results only if it
\* asked for them
ResultEvents(r) ==
  {<<FinalResult>>} \cup
    (IF r.interimResults THEN {<<InterimResult>>} ELSE {})

\* the recognition after it delivered an event: a final result ends a capture
\* that is not continuous or was stopped
delivered(r, results) ==
  [r EXCEPT !.sent = @ + 1,
            !.state = IF results[1].isFinal /\ ~(r.continuous /\ @ = "active")
                      THEN "ending" ELSE @]

\* --------------------------------------------------------- reveal animator
\* String.prototype.charAt: the empty string past the end
charAt(text, k) == IF k < Len(text) THEN <<text[k + 1]>> ELSE <<>>

\* clearTimeout(typingTimeoutRef.current)
clearTyping(w) ==
  [w EXCEPT !.timers = @ \ {w.typingTimeoutRef}, !.typingTimeoutRef = NoTimer]

\* typeText of the effect run for `text`, its counter at i.  The updater
\* prev => prev + aiResponse.charAt(i) reads i when React evaluates it:
\* inside setState, before i++ (lazy = FALSE), or in the next render,
\* after i++ (lazy = TRUE).
typeText(w, text, i, lazy) ==
  IF i < Len(text)
  THEN [w EXCEPT
          !.displayedAiResponse = @ \o charAt(text, IF lazy THEN i + 1 ELSE i),
          !.timers = @ \cup {[text |-> text, i |-> i + 1]},
          !.typingTimeoutRef = [text |-> text, i |-> i + 1]]
  ELSE [w EXCEPT !.typingTimeoutRef =
                   IF @ \in w.timers THEN @ ELSE NoTimer]

\* a typing effect whose cleanup leaves the pending timer alone
typingEffectWithoutCleanup(w, before, lazy) ==
  IF ~w.mounted \/ w.aiResponse = before
  THEN w
  ELSE IF w.aiResponse # <<>>
       THEN typeText([w EXCEPT !.displayedAiResponse = <<>>],
                     w.aiResponse, 0, lazy)
       ELSE w

\* the typing effect, run by the render that follows a change of aiResponse
typingEffect(w, before, lazy) ==
  IF ~w.mounted \/ w.aiResponse = before
  THEN w
  ELSE LET w1 == clearTyping(w)
       IN IF w1.aiResponse # <<>>
          THEN typeText([w1 EXCEPT !.displayedAiResponse = <<>>],
                        w1.aiResponse, 0, lazy)
          ELSE w1

setAiResponse(w, text) == [w EXCEPT !.aiResponse = text]

\* the render after a handler and the typing effect it runs (deps: aiResponse)
render(w, lazy) == typingEffect(w, aiResponse, lazy)

\* ---------------------------------------------------- synthesis controller
\* synth.speaking.  The attribute of an utterance that is queued and has not
\* begun differs between engines (fl); a full queue reads as speaking.
speaking(q, fl) ==
  /\ q # <<>>
  /\ (q[1].started \/ fl \/ Len(q) >= MaxQueue)

\* synth.cancel(): every queued utterance is removed and gets an end/error event
cancel(w) ==
  [w EXCEPT !.synthQueue = <<>>,
            !.cancelEvents = IF @ + Len(w.synthQueue) > MaxCancelEv
                             THEN MaxCancelEv
                             ELSE @ + Len(w.synthQueue),
            !.calls = Append(@, Did("cancel"))]

speakText(w, text, lang, fl) ==
  IF ~w.synthRef
  THEN w
  ELSE LET w1 == IF speaking(w.synthQueue, fl) THEN cancel(w) ELSE w
       IN [w1 EXCEPT
             !.synthQueue = Append(@, [started |-> FALSE]),
             !.calls = Append(@, Call("speak", text, lang))]

\* ------------------------------------------------------ capture controller
\* recognition.stop(): only a started recognition changes
stopRecognition(r) ==
  IF r.state = "active" THEN [r EXCEPT !.state = "stopping"] ELSE r


\* one step of getAiMotivationalResponse up to its first await (lines 153-169);
\* lang is the selectedLanguage of the render that made the callback
getAiMotivationalResponse(w, lang, query) ==
  LET w1 == setAiResponse([w EXCEPT !.isLoading = TRUE], ThinkingText)
  IN [w1 EXCEPT
        !.requests = @ (+) SetToBag({[stage |-> "generate", lang |-> lang]}),
        !.calls = Append(@, Call("fetch", query, lang))]

\* an onresult whose request reads the language selected when the result
\* arrives
onresultCurrentLanguage(w, lang, results) ==
  getAiMotivationalResponse(w, w.selectedLanguage,
                            results[1].alternatives[1])

\* recognition.onresult (lines 254-260)
onresult(w, lang, results) ==
  getAiMotivationalResponse(w, lang, results[1].alternatives[1])

\* recognition.onend (lines 263-266)
onend(w) == [w EXCEPT !.listening = FALSE]

\* an onerror that starts the capture again after reporting the error
onerrorRestarting(w, reason, lang, fl) ==
  LET w1 == speakText(setAiResponse(w, RecErrText(reason)),
                      RecErrText(reason), lang, fl)
  IN [w1 EXCEPT !.recognitionRef = start(@, lang),
                !.calls = Append(@, Did("start")),
                !.listening = TRUE]

\* recognition.onerror (lines 269-274)
onerror(w, reason, lang, fl) ==
  speakText(setAiResponse([w EXCEPT !.listening = FALSE], RecErrText(reason)),
            RecErrText(reason), lang, fl)

\* ------------------------------------------------------------ voice policy
\* a default that ignores the voice names: the first voice of the language
defaultVoiceFirstOfLanguage(list, lang) ==
  LET L == {k \in 1..Len(list) : list[k].lang = lang}
  IN list[IF L # {} THEN CHOOSE k \in L : \A j \in L : k <= j ELSE 1]

\* the default of populateVoiceList (lines 224-226): find returns the first
defaultVoice(list, lang) ==
  LET G == {k \in 1..Len(list) : list[k].lang = lang /\ list[k].google}
      L == {k \in 1..Len(list) : list[k].lang = lang}
      first(S) == CHOOSE k \in S : \A j \in S : k <= j
  IN list[IF G # {} THEN first(G) ELSE IF L # {} THEN first(L) ELSE 1]

\* populateVoiceList of the effect run whose render had the closure cl
populateVoiceList(w, cl) ==
  IF ~w.synthRef
  THEN w
  ELSE LET w1 == [w EXCEPT !.voices = w.platformVoices, !.effectPending = TRUE]
       IN IF cl.voice = "" /\ Len(w.platformVoices) > 0
          THEN [w1 EXCEPT
                  !.selectedVoiceURI = defaultVoice(w.platformVoices, cl.lang).uri]
          ELSE w1

\* ------------------------------------------------- initialisation effect
\* the cleanup the previous run returned (lines 277-288)
effectCleanup(w) ==
  IF ~w.hasCleanup
  THEN w
  ELSE LET w1 == [w EXCEPT !.recognitionRef = stopRecognition(@),
                           !.calls = Append(@, Did("stop"))]
           w2 == [cancel(w1) EXCEPT !.onvoiceschanged = FALSE]
       IN clearTyping(w2)

\* the body of the effect (lines 207-275)
effectBody(w) ==
  IF w.status # "authenticated"
  THEN [w EXCEPT !.hasCleanup = FALSE, !.effectPending = FALSE]
  ELSE LET cl == [lang |-> w.selectedLanguage, voice |-> w.selectedVoiceURI]
           w1 == [w EXCEPT !.synthRef = (w.platform # "none"),
                           !.effectPending = FALSE,
                           !.effectClosure = cl]
           w2 == [populateVoiceList(w1, cl) EXCEPT
                    !.onvoiceschanged = w1.synthRef]
       IN IF w.platform # "full"
          THEN [setAiResponse(w2, UnsupportedText) EXCEPT
                  !.hasCleanup = FALSE]
          ELSE [w2 EXCEPT
                  !.oldRecognitions =
                     IF w2.recognitionRef.state \in {"stopping", "ending", "active"}
                     THEN @ (+) SetToBag({w2.recognitionRef})
                     ELSE @,
                  !.recognitionRef = newRecognition(cl.lang),
                  !.hasCleanup = TRUE]

initialisationEffect(w) == effectBody(effectCleanup(w))

\* ------------------------------------------------------------ user handlers
\* a toggleListening that starts the capture without cancelling synthesis
toggleListeningWithoutCancel(w, fl) ==
  IF w.recognitionRef.state = "null"
  THEN speakText(setAiResponse(w, NotInitText),
                 NotInitText, w.selectedLanguage, fl)
  ELSE IF w.listening
  THEN [w EXCEPT !.recognitionRef = stopRecognition(@),
                 !.calls = Append(@, Did("stop")),
                 !.isSpeaking = FALSE]
  ELSE LET w1 == setAiResponse(w, ListeningText)
           w3 == [w1 EXCEPT !.isSpeaking = FALSE]
       IN IF w3.recognitionRef.state = "idle"
          THEN [w3 EXCEPT !.recognitionRef = start(@, w.selectedLanguage),
                          !.calls = Append(@, Did("start")),
                          !.listening = TRUE]
          ELSE speakText(setAiResponse([w3 EXCEPT !.listening = FALSE],
                                       MicErrText),
                         MicErrSpoken, w.selectedLanguage, fl)

\* lines 345-378; speakText is the one of the current render
toggleListening(w, fl) ==
  IF w.recognitionRef.state = "null"
  THEN speakText(setAiResponse(w, NotInitText),
                 NotInitText, w.selectedLanguage, fl)
  ELSE IF w.listening
  THEN [w EXCEPT !.recognitionRef = stopRecognition(@),
                 !.calls = Append(@, Did("stop")),
                 !.isSpeaking = FALSE]
  ELSE LET w1 == setAiResponse(w, ListeningText)
           w2 == [w1 EXCEPT !.isSpeaking = FALSE]
           w3 == IF w2.synthRef THEN cancel(w2) ELSE w2
       IN IF w3.recognitionRef.state = "idle"
          THEN [w3 EXCEPT !.recognitionRef = start(@, w.selectedLanguage),
                          !.calls = Append(@, Did("start")),
                          !.listening = TRUE]
          ELSE \* start() throws InvalidStateError on a started recognition
               speakText(setAiResponse([w3 EXCEPT !.listening = FALSE],
                                       MicErrText),
                         MicErrSpoken, w.selectedLanguage, fl)

\* lines 381-387
stopSpeaking(w, fl) ==
  IF w.synthRef /\ speaking(w.synthQueue, fl)
  THEN [cancel(w) EXCEPT !.isSpeaking = FALSE]
  ELSE w

\* lines 390-392
handleVoiceChange(w, uri) == [w EXCEPT !.selectedVoiceURI = uri]

\* a language change that leaves the selected voice alone
handleLanguageChangeKeepingVoice(w, newLang, fl) ==
  LET w1 == [w EXCEPT !.selectedLanguage = newLang]
  IN IF w.listening THEN toggleListening(w1, fl) ELSE w1

\* lines 395-404
handleLanguageChange(w, newLang, fl) ==
  LET w1 == [w EXCEPT !.selectedLanguage = newLang, !.selectedVoiceURI = ""]
  IN IF w.listening THEN toggleListening(w1, fl) ELSE w1

\* ------------------------------------------------- /api/motivate: values
\* the characters of a generated text: whitespace, a lower-case letter and
\* its upper-case letter
Chars == {" ", "g", "G"}
Texts == UNION {[1..n -> Chars] : n \in 0..MaxText}

\* line 114
FallbackMessage == <<"I", "'", "m">>

\* the JSON body of a 2xx backend reply, by how much of
\* candidates[0].content.parts[0].text it has
Shapes == {"noCandidates", "emptyCandidates", "noContent", "noParts",
           "emptyParts", "partWithoutText", "text"}
Payloads == {[shape |-> sh, text |-> <<>>] : sh \in Shapes \ {"text"}}
              \cup {[shape |-> "text", text |-> t] : t \in Texts}

NoHandler ==
  [pc |-> "idle", method |-> "", prompt |-> FALSE, fetched |-> FALSE,
   outputLanguage |-> "", backendOk |-> FALSE,
   result |-> [shape |-> "noCandidates", text |-> <<>>],
   aiMotivationalMessage |-> <<>>,
   status |-> 0, message |-> <<>>, error |-> ""]

\* res.status(code).json(...)
respond(h, code, message, error) ==
  [h EXCEPT !.pc = "done", !.status = code, !.message = message,
            !.error = error]

\* the catch block, lines 150-160
internalServerError(h, error) ==
  respond(h, 500, <<"Internal Server Error">>, error)

toUpperCase(c) == IF c = "g" THEN "G" ELSE c

RECURSIVE trimStart(_)
trimStart(t) == IF t # <<>> /\ Head(t) = " " THEN trimStart(Tail(t)) ELSE t

RECURSIVE trimEnd(_)
trimEnd(t) ==
  IF t # <<>> /\ t[Len(t)] = " "
  THEN trimEnd(SubSeq(t, 1, Len(t) - 1))
  ELSE t

trim(t) == trimEnd(trimStart(t))

\* lines 117-119: the condition under which the text is extracted
hasParts(result) ==
  result.shape \notin {"noCandidates", "emptyCandidates", "noContent",
                       "noParts", "emptyParts"}

\* lines 114-123: the extracted message, and whether it is a string
extractMessage(result) ==
  IF hasParts(result)
  THEN [defined |-> result.shape = "text", text |-> result.text]
  ELSE [defined |-> TRUE, text |-> FallbackMessage]

\* lines 127-131
postProcess(message, outputLanguage) ==
  trim(IF Len(message) > 0 /\ outputLanguage = "en-US"
       THEN <<toUpperCase(message[1])>> \o Tail(message)
       ELSE message)

\* a handler that serves every method
receiveAnyMethod(h, method, prompt, outputLanguage) ==
  LET h1 == [h EXCEPT !.method = method, !.prompt = prompt]
  IN IF ~prompt
     THEN respond(h1, 400, <<"Prompt is required">>, "")
     ELSE [h1 EXCEPT !.pc = "connect", !.outputLanguage = outputLanguage]

\* lines 34-44, up to the first await; method and prompt are kept as the
\* request had them
receive(h, method, prompt, outputLanguage) ==
  LET h1 == [h EXCEPT !.method = method, !.prompt = prompt]
  IN IF method # "POST"
     THEN respond(h1, 405, <<"Method Not Allowed">>, "")
     ELSE IF ~prompt
     THEN respond(h1, 400, <<"Prompt is required">>, "")
     ELSE [h1 EXCEPT !.pc = "connect", !.outputLanguage = outputLanguage]

\* lines 49-103: clientPromise settles; the API key is read
connected(h, ok, apiKey) ==
  IF ~ok THEN internalServerError(h, "connect")
  ELSE IF ~apiKey THEN internalServerError(h, "apiKey")
  ELSE [h EXCEPT !.pc = "fetch", !.fetched = TRUE]

\* lines 99-110: the fetch of the backend settles
backendReplied(h, outcome) ==
  IF outcome = "ok"
  THEN [h EXCEPT !.pc = "json", !.backendOk = TRUE]
  ELSE internalServerError(h, outcome)

\* lines 113-131: the body is parsed, the message extracted and processed
bodyParsed(h, result) ==
  LET m == extractMessage(result)
      h1 == [h EXCEPT !.result = result]
  IN IF ~m.defined
     THEN \* undefined.length throws a TypeError
          internalServerError(h1, "TypeError")
     ELSE [h1 EXCEPT !.pc = "insert",
                     !.aiMotivationalMessage =
                        postProcess(m.text, h.outputLanguage)]

\* a handler that answers 200 whether or not the insert succeeded
insertSettledAlwaysOk(h, ok) == respond(h, 200, h.aiMotivationalMessage, "")

\* lines 136-148: insertOne settles
insertSettled(h, ok) ==
  IF ok
  THEN respond(h, 200, h.aiMotivationalMessage, "")
  ELSE internalServerError(h, "insert")

\* ------------------------------------------------------ /api/stats: values
\* the userId values of the request bodies
UserIds == {"u1", "u2"}

NoStats ==
  [pc |-> "idle", method |-> "", totalQueries |-> 0, totalUsers |-> 0, status |-> 0,
   reads |-> 0]

\* stats.ts lines 33-35, up to the first await
statsReceive(s, method) ==
  IF method # "GET"
  THEN [s EXCEPT !.pc = "done", !.method = method, !.status = 405]
  ELSE [s EXCEPT !.pc = "connect", !.method = method]

\* stats.ts lines 54-62: the catch block
statsFailed(s) == [s EXCEPT !.pc = "done", !.status = 500]

\* stats.ts lines 39-41: clientPromise settles
statsConnected(s, ok) ==
  IF ok THEN [s EXCEPT !.pc = "count"] ELSE statsFailed(s)

\* stats.ts line 44: countDocuments settles, on the collection docs
countDocuments(s, ok, docs) ==
  IF ok
  THEN [s EXCEPT !.pc = "distinct", !.reads = @ + 1,
                 !.totalQueries = BagCardinality(docs)]
  ELSE statsFailed([s EXCEPT !.reads = @ + 1])

\* stats.ts lines 48-52: distinct('userId') settles, on the collection docs,
\* and the reply is sent
distinctUsers(s, ok, docs) ==
  IF ok
  THEN [s EXCEPT !.pc = "done", !.status = 200, !.reads = @ + 1,
                 !.totalUsers = Cardinality({d.userId : d \in BagToSet(docs)})]
  ELSE statsFailed([s EXCEPT !.reads = @ + 1])

\* ------------------------------------------------ /api/motivate: the name
\* the characters of a userName: a letter, a space and a tab
NameChars == {"A", " ", "\t"}

\* the placeholder name of line 57
Guest == <<"G", "u", "e", "s", "t">>

\* the userName of a request body: absent, or a string
UserNames ==
  {[present |-> FALSE, text |-> <<>>]} \cup
  {[present |-> TRUE, text |-> t] :
     t \in {Guest} \cup UNION {[1..n -> NameChars] : n \in 0..MaxName}}

\* userName.split(' ')[0]: the text before the first space
splitFirst(text) ==
  LET S == {k \in 1..Len(text) : text[k] = " "}
  IN IF S = {} THEN text
     ELSE SubSeq(text, 1, (CHOOSE k \in S : \A j \in S : k <= j) - 1)

\* line 57: an absent and an empty userName are falsy
userFirstName(userName) ==
  IF userName.present /\ userName.text # <<>> /\ userName.text # Guest
  THEN splitFirst(userName.text)
  ELSE <<>>

\* line 58
greetingPhrase(firstName) ==
  IF firstName # <<>> THEN firstName \o <<",", " ">> ELSE <<>>

\* lines 39-58: what the prompt takes from the userName of a request body
greet(userName) ==
  [userName |-> userName,
   userFirstName |-> userFirstName(userName),
   greetingPhrase |-> greetingPhrase(userFirstName(userName))]

\* -------------------------------------------------------------------- Init
Init ==
  /\ platform \in Platforms
  /\ status = "loading"
  /\ mounted = TRUE
  /\ listening = FALSE
  /\ isSpeaking = FALSE
  /\ isLoading = FALSE
  /\ aiResponse = Greeting
  \* the typing effect of the mount has run
  /\ \E lazy \in BOOLEAN :
       LET w == typeText([timers |-> {}, typingTimeoutRef |-> NoTimer,
                           displayedAiResponse |-> <<>>], Greeting, 0, lazy)
       IN /\ displayedAiResponse = w.displayedAiResponse
          /\ timers = w.timers
          /\ typingTimeoutRef = w.typingTimeoutRef
  /\ voices = <<>>
  /\ selectedVoiceURI = ""
  /\ selectedLanguage = "en-US"
  /\ synthRef = FALSE
  /\ recognitionRef = NoRecognition
  /\ oldRecognitions = EmptyBag
  /\ effectClosure = [lang |-> "en-US", voice |-> ""]
  /\ onvoiceschanged = FALSE
  /\ hasCleanup = FALSE
  /\ effectPending = FALSE
  /\ platformVoices = <<>>
  /\ synthQueue = <<>>
  /\ cancelEvents = 0
  /\ requests = EmptyBag
  /\ calls = <<>>
  /\ totalUsers = Unknown
  /\ totalQueries = Unknown
  /\ fetchStatsPending = FALSE
  /\ userDone = FALSE
  /\ utterance = [voices |-> <<>>, selectedVoiceURI |-> "",
                  selectedLanguage |-> "en-US", voice |-> ""]
  /\ handlers = [id \in 1..MaxHandlers |-> NoHandler]
  /\ interactions = EmptyBag
  /\ greeting = greet([present |-> FALSE, text |-> <<>>])
  /\ stats = NoStats

\* the controls are rendered (lines 407-425)
Rendered == mounted /\ status = "authenticated"

\* ------------------------------------------------------------ user actions
ToggleListening(maxOld) ==
  /\ Rendered
  /\ ~isLoading
  /\ (listening \/ recognitionRef.state # "idle"
        \/ BagCardinality(oldRecognitions) < maxOld)
  /\ \E fl \in BOOLEAN, lazy \in BOOLEAN :
       Commit(render(toggleListening(W, fl), lazy))

StopSpeaking ==
  /\ Rendered
  /\ isSpeaking /\ ~isLoading
  /\ \E fl \in BOOLEAN : Commit(stopSpeaking(W, fl))

\* a change event is discrete: React renders and runs the effects in it
VoiceChange ==
  /\ Rendered
  /\ ~(isLoading \/ isSpeaking)
  /\ \E k \in 1..Len(voices), lazy \in BOOLEAN :
       /\ voices[k].lang = selectedLanguage
       /\ voices[k].uri # selectedVoiceURI
       /\ Commit(render(initialisationEffect(
                          handleVoiceChange(W, voices[k].uri)), lazy))

LanguageChange ==
  /\ Rendered
  /\ ~(isLoading \/ isSpeaking \/ listening)
  /\ \E l \in Languages \ {selectedLanguage}, fl \in BOOLEAN, lazy \in BOOLEAN :
       Commit(render(initialisationEffect(handleLanguageChange(W, l, fl)),
                     lazy))

\* --------------------------------------------------------- session, effects
StatusChange ==
  /\ mounted
  /\ \/ /\ status = "loading"
        /\ \E s \in {"authenticated", "unauthenticated"} :
             Commit([W EXCEPT !.status = s, !.effectPending = TRUE,
                              \* the statistics effect (lines 310-311)
                              !.fetchStatsPending = (s = "authenticated")])
     \/ /\ status = "authenticated"
        /\ Commit([W EXCEPT !.status = "unauthenticated", !.effectPending = TRUE])

RunInitialisationEffect ==
  /\ mounted
  /\ effectPending
  /\ \E lazy \in BOOLEAN : Commit(render(initialisationEffect(W), lazy))

\* router.push('/login') unmounts App: the cleanups of both effects run
Unmount ==
  /\ mounted
  /\ status = "unauthenticated"
  /\ ~effectPending
  /\ Commit([clearTyping(effectCleanup(W)) EXCEPT !.mounted = FALSE])

\* the voiceschanged event: the platform's list has grown, at once or in
\* stages (local voices first, remote ones later)
VoicesChanged ==
  /\ platform # "none"
  /\ \E n \in (Len(platformVoices) + 1)..Len(VoiceList) :
       LET w == [W EXCEPT !.platformVoices = SubSeq(VoiceList, 1, n)]
       IN Commit(IF onvoiceschanged /\ mounted
                 THEN populateVoiceList(w, effectClosure)
                 ELSE w)

\* ---------------------------------------------------- recognition events
RecognitionResult(maxReq) ==
  /\ BagCardinality(requests) < maxReq
  /\ \E lazy \in BOOLEAN :
       \/ /\ recognitionRef.state \in {"active", "stopping"}
          /\ recognitionRef.sent < MaxSent
          /\ \E results \in ResultEvents(recognitionRef) :
               Commit(render(onresult(
                 [W EXCEPT !.recognitionRef = delivered(@, results),
                           !.calls = <<Result(recognitionRef, results)>>],
                 recognitionRef.lang, results), lazy))
       \/ \E r \in BagToSet(oldRecognitions) :
            /\ r.state = "stopping"
            /\ r.sent < MaxSent
            /\ \E results \in ResultEvents(r) :
                 Commit(render(onresult(
                   [W EXCEPT !.oldRecognitions =
                      (@ (-) SetToBag({r}))
                        (+) SetToBag({delivered(r, results)}),
                             !.calls = <<Result(r, results)>>],
                   r.lang, results), lazy))

RecognitionError ==
  \E reason \in RecErrors, fl \in BOOLEAN, lazy \in BOOLEAN :
    \/ /\ recognitionRef.state \in {"active", "stopping"}
       /\ Commit(render(onerror(
              [W EXCEPT !.recognitionRef.state = "ending"],
              reason, recognitionRef.lang, fl), lazy))
    \/ \E r \in BagToSet(oldRecognitions) :
         /\ r.state = "stopping"
         /\ Commit(render(onerror(
              [W EXCEPT !.oldRecognitions =
                 (@ (-) SetToBag({r}))
                   (+) SetToBag({[r EXCEPT !.state = "ending"]})],
              reason, r.lang, fl), lazy))

RecognitionEnd ==
  \/ /\ recognitionRef.state \in {"active", "stopping", "ending"}
     /\ Commit(onend([W EXCEPT !.recognitionRef.state = "idle",
                               !.recognitionRef.sent = 0]))
  \/ \E r \in BagToSet(oldRecognitions) :
       Commit(onend([W EXCEPT !.oldRecognitions = @ (-) SetToBag({r})]))

\* ------------------------------------------------------- synthesis events
UtteranceStart ==
  /\ synthQueue # <<>>
  /\ ~synthQueue[1].started
  /\ Commit([W EXCEPT !.synthQueue[1].started = TRUE, !.isSpeaking = TRUE])

UtteranceEnd ==
  /\ synthQueue # <<>>
  /\ synthQueue[1].started
  /\ Commit([W EXCEPT !.synthQueue = Tail(@), !.isSpeaking = FALSE])

UtteranceError ==
  /\ synthQueue # <<>>
  /\ Commit([W EXCEPT !.synthQueue = Tail(@), !.isSpeaking = FALSE])

\* the end/error event of an utterance that cancel() removed
CancelledUtteranceEvent ==
  /\ cancelEvents > 0
  /\ Commit([W EXCEPT !.cancelEvents = @ - 1, !.isSpeaking = FALSE])

\* ------------------------------------------------------------ reveal timer
TimerTick ==
  \E t \in timers, lazy \in BOOLEAN :
    Commit(typeText([W EXCEPT !.timers = @ \ {t}], t.text, t.i, lazy))

\* ------------------------------------------------------ request outcomes
\* a catch block that speaks the text it displays, error detail included
requestFailedSpeakingDetail(w, detail, lang, fl) ==
  [speakText(setAiResponse(w, SorryText(detail)), SorryText(detail), lang, fl)
     EXCEPT !.isLoading = FALSE]

\* a catch block that sends the request again
requestFailedRetrying(w, detail, lang, fl) ==
  getAiMotivationalResponse(
    [speakText(setAiResponse(w, SorryText(detail)), SorrySpoken, lang, fl)
       EXCEPT !.isLoading = FALSE],
    lang, <<>>)

\* a catch block with no finally after it
requestFailedStillLoading(w, detail, lang, fl) ==
  speakText(setAiResponse(w, SorryText(detail)), SorrySpoken, lang, fl)

\* lines 190-202: the catch and the finally of getAiMotivationalResponse
requestFailed(w, detail, lang, fl) ==
  [speakText(setAiResponse(w, SorryText(detail)), SorrySpoken, lang, fl)
     EXCEPT !.isLoading = FALSE]

\* a success path that speaks the response text of the render it closed over
generationSucceededSpeakingStale(w, m, lang, fl) ==
  speakText(setAiResponse(w, m), w.aiResponse, lang, fl)

\* lines 176-180: the message of the reply is displayed and spoken
generationSucceeded(w, m, lang, fl) ==
  speakText(setAiResponse(w, m), m, lang, fl)

\* lines 171-201: the reply of /api/motivate
GenerationResponse ==
  \E r \in BagToSet(requests), fl \in BOOLEAN, lazy \in BOOLEAN :
    /\ r.stage = "generate"
    /\ LET w == [W EXCEPT !.requests = @ (-) SetToBag({r})]
       IN \/ \E m \in Messages :
               Commit(render(
                 [generationSucceeded(w, m, r.lang, fl)
                    EXCEPT !.requests =
                      @ (+) SetToBag({[r EXCEPT !.stage = "stats"]})], lazy))
          \/ \E d \in GenErrors :
               Commit(render(requestFailed(w, d, r.lang, fl), lazy))

\* lines 183-201: the reply of /api/stats: a 200 with its body, a non-OK
\* status, or a fetch or a json() that rejects
StatsResponse ==
  \E r \in BagToSet(requests), fl \in BOOLEAN, lazy \in BOOLEAN :
    /\ r.stage = "stats"
    /\ LET w == [W EXCEPT !.requests = @ (-) SetToBag({r})]
       IN \/ \E d \in StatsData :
               Commit([w EXCEPT !.totalUsers = d.totalUsers,
                                !.totalQueries = d.totalQueries,
                                !.isLoading = FALSE])
          \/ Commit([w EXCEPT !.isLoading = FALSE])
          \/ Commit(render(requestFailed(w, "network", r.lang, fl), lazy))

\* a fetchStats whose catch leaves the counters as they are
fetchStatsKeepingCounters(w, ok, d) ==
  IF ok
  THEN [w EXCEPT !.totalUsers = d.totalUsers, !.totalQueries = d.totalQueries]
  ELSE w

\* lines 293-307: fetchStats after its fetch settled
fetchStats(w, ok, d) ==
  IF ok
  THEN [w EXCEPT !.totalUsers = d.totalUsers, !.totalQueries = d.totalQueries]
  ELSE [w EXCEPT !.totalUsers = Unknown, !.totalQueries = Unknown]

\* the reply to the fetchStats of the statistics effect
FetchStatsResponse ==
  /\ fetchStatsPending
  /\ \E ok \in BOOLEAN, d \in StatsData :
       Commit(fetchStats([W EXCEPT !.fetchStatsPending = FALSE], ok, d))

Next ==
  \/ ToggleListening(MaxOld)
  \/ StopSpeaking
  \/ VoiceChange
  \/ LanguageChange
  \/ StatusChange
  \/ RunInitialisationEffect
  \/ Unmount
  \/ VoicesChanged
  \/ RecognitionResult(MaxReq)
  \/ RecognitionError
  \/ RecognitionEnd
  \/ UtteranceStart
  \/ UtteranceEnd
  \/ UtteranceError
  \/ CancelledUtteranceEvent
  \/ TimerTick
  \/ GenerationResponse
  \/ StatsResponse
  \/ FetchStatsResponse

Spec == Init /\ [][Next]_vars

\* The capture controller with more replaced recognitions, on a platform
\* whose voice list stays empty, under timers that do not fire and a
\* fetchStats that does not settle: a tick changes displayedAiResponse and
\* the timers alone, the reply to fetchStats the usage counters alone.
NextCapture ==
  \/ ToggleListening(MaxOldCapture)
  \/ StopSpeaking
  \/ LanguageChange
  \/ StatusChange
  \/ RunInitialisationEffect
  \/ Unmount
  \/ RecognitionResult(MaxReq)
  \/ RecognitionError
  \/ RecognitionEnd
  \/ UtteranceStart
  \/ UtteranceEnd
  \/ UtteranceError
  \/ CancelledUtteranceEvent
  \/ GenerationResponse
  \/ StatsResponse

SpecCapture == Init /\ [][NextCapture]_vars

\* The turns of the client when two generation requests may be in flight:
\* the session, the microphone button, the initialisation effect, the
\* recognition events and the replies, with no synthesis event, no language
\* or voice change and no unmount.
NextOverlap ==
  \/ ToggleListening(MaxOldCapture)
  \/ StatusChange
  \/ RunInitialisationEffect
  \/ RecognitionResult(MaxReqOverlap)
  \/ RecognitionError
  \/ RecognitionEnd
  \/ GenerationResponse
  \/ StatsResponse

SpecOverlap == Init /\ [][NextOverlap]_vars

\* The client from the moment on which the user issues no further action,
\* under events and requests that complete: a platform event or a reply
\* that is due is delivered.  The reveal timers do not fire and the
\* fetchStats of the statistics effect does not settle: they change the
\* displayed text and the usage counters alone.
UserLeaves ==
  /\ ~userDone
  /\ Commit([W EXCEPT !.userDone = TRUE])

Completion ==
  \/ RecognitionEnd
  \/ UtteranceStart
  \/ UtteranceEnd
  \/ CancelledUtteranceEvent
  \/ GenerationResponse
  \/ StatsResponse

NextLive ==
  \/ ~userDone /\ ToggleListening(MaxOld)
  \/ ~userDone /\ StopSpeaking
  \/ ~userDone /\ VoiceChange
  \/ ~userDone /\ LanguageChange
  \/ UserLeaves
  \/ StatusChange
  \/ RunInitialisationEffect
  \/ Unmount
  \/ VoicesChanged
  \/ RecognitionResult(MaxReq)
  \/ RecognitionError
  \/ RecognitionEnd
  \/ UtteranceStart
  \/ UtteranceEnd
  \/ UtteranceError
  \/ CancelledUtteranceEvent
  \/ GenerationResponse
  \/ StatsResponse

SpecLive == Init /\ [][NextLive]_vars /\ WF_vars(Completion)

\* the variables of the client that every handler goes through
clientVars == << platform, status, mounted, listening, isSpeaking, isLoading,
                 aiResponse, displayedAiResponse, voices, selectedVoiceURI,
                 selectedLanguage, typingTimeoutRef, timers, synthRef,
                 recognitionRef, oldRecognitions, effectClosure,
                 onvoiceschanged, hasCleanup, effectPending, platformVoices,
                 synthQueue, cancelEvents, requests, calls, totalUsers,
                 totalQueries, fetchStatsPending, userDone >>

\* ------------------------------------------- voice resolution of speakText
\* the voices a platform may enumerate, in any order
AllVoices ==
  { [uri |-> "v1", lang |-> "en-US", google |-> FALSE],
    [uri |-> "v2", lang |-> "en-US", google |-> TRUE],
    [uri |-> "v3", lang |-> "mr-IN", google |-> FALSE] }

VoiceLists ==
  {l \in UNION {[1..n -> AllVoices] : n \in 0..MaxVoices} :
     \A j, k \in 1..Len(l) : j # k => l[j] # l[k]}

\* lines 124-131: the voiceURI of the voice given to the utterance, "" when
\* voices[0] is undefined
voiceToUse(list, uri, lang) ==
  LET S == {k \in 1..Len(list) : list[k].uri = uri}
      L == {k \in 1..Len(list) : list[k].lang = lang}
      first(T) == CHOOSE k \in T : \A j \in T : k <= j
  IN IF S # {} THEN list[first(S)].uri
     ELSE IF L # {} THEN list[first(L)].uri
     ELSE IF list # <<>> THEN list[1].uri
     ELSE ""

\* speakText resolves the voice for some voices, selectedVoiceURI and
\* selectedLanguage of a render
ResolveVoice ==
  /\ \E list \in VoiceLists, lang \in Languages,
        uri \in {""} \cup {v.uri : v \in AllVoices} :
       utterance' = [voices |-> list, selectedVoiceURI |-> uri,
                     selectedLanguage |-> lang,
                     voice |-> voiceToUse(list, uri, lang)]
  /\ UNCHANGED <<clientVars, handlers, interactions, greeting, stats>>

NextVoice == ResolveVoice

SpecVoice == Init /\ [][NextVoice]_vars

\* the handler builds its prompt for the userName of some request body
BuildPrompt ==
  /\ \E userName \in UserNames : greeting' = greet(userName)
  /\ UNCHANGED <<clientVars, utterance, handlers, interactions, stats>>

NextPrompt == BuildPrompt

SpecPrompt == Init /\ [][NextPrompt]_vars

\* ------------------------------------------------- /api/motivate: actions
Receive(id) ==
  /\ handlers[id].pc = "idle"
  /\ \E method \in {"POST", "GET"}, prompt \in BOOLEAN,
        outputLanguage \in Languages :
       handlers' = [handlers EXCEPT
                      ![id] = receive(@, method, prompt, outputLanguage)]
  /\ UNCHANGED <<clientVars, utterance, interactions, greeting, stats>>

Connected(id) ==
  /\ handlers[id].pc = "connect"
  /\ \E ok \in BOOLEAN, apiKey \in BOOLEAN :
       handlers' = [handlers EXCEPT ![id] = connected(@, ok, apiKey)]
  /\ UNCHANGED <<clientVars, utterance, interactions, greeting, stats>>

BackendReplied(id) ==
  /\ handlers[id].pc = "fetch"
  /\ \E outcome \in {"ok", "notOk", "network"} :
       handlers' = [handlers EXCEPT ![id] = backendReplied(@, outcome)]
  /\ UNCHANGED <<clientVars, utterance, interactions, greeting, stats>>

BodyParsed(id) ==
  /\ handlers[id].pc = "json"
  /\ \/ \E result \in Payloads :
          handlers' = [handlers EXCEPT ![id] = bodyParsed(@, result)]
     \/ handlers' = [handlers EXCEPT ![id] = internalServerError(@, "json")]
  /\ UNCHANGED <<clientVars, utterance, interactions, greeting, stats>>

InsertSettled(id) ==
  /\ handlers[id].pc = "insert"
  /\ \E ok \in BOOLEAN :
       /\ handlers' = [handlers EXCEPT ![id] = insertSettled(@, ok)]
       /\ \E userId \in UserIds :
            interactions' =
              IF ok
              THEN interactions
                     (+) SetToBag({[request |-> id,
                                    userId |-> userId,
                                    aiResponse |->
                                      handlers[id].aiMotivationalMessage]})
              ELSE interactions
  /\ UNCHANGED <<clientVars, utterance, greeting, stats>>

NextServer ==
  \E id \in 1..MaxHandlers :
    \/ Receive(id)
    \/ Connected(id)
    \/ BackendReplied(id)
    \/ BodyParsed(id)
    \/ InsertSettled(id)

SpecServer == Init /\ [][NextServer]_vars

\* ---------------------------------------------------- /api/stats: actions
StatsReceive ==
  /\ stats.pc = "idle"
  /\ \E method \in {"GET", "POST"} : stats' = statsReceive(stats, method)
  /\ UNCHANGED <<clientVars, utterance, handlers, interactions, greeting>>

StatsConnected ==
  /\ stats.pc = "connect"
  /\ \E ok \in BOOLEAN : stats' = statsConnected(stats, ok)
  /\ UNCHANGED <<clientVars, utterance, handlers, interactions, greeting>>

StatsCounted ==
  /\ stats.pc = "count"
  /\ \E ok \in BOOLEAN : stats' = countDocuments(stats, ok, interactions)
  /\ UNCHANGED <<clientVars, utterance, handlers, interactions, greeting>>

StatsDistinct ==
  /\ stats.pc = "distinct"
  /\ \E ok \in BOOLEAN : stats' = distinctUsers(stats, ok, interactions)
  /\ UNCHANGED <<clientVars, utterance, handlers, interactions, greeting>>

\* both handlers over the one interactions collection
NextStats ==
  \/ NextServer
  \/ StatsReceive
  \/ StatsConnected
  \/ StatsCounted
  \/ StatsDistinct

SpecStats == Init /\ [][NextStats]_vars

\* ================================================================ properties
\* C1: in every reachable state, listening and isSpeaking are not both true.
C1_ListeningExcludesSpeaking == ~(listening /\ isSpeaking)

\* C2: in every reachable state at most one of listening, isLoading and
\* isSpeaking is true.
C2_AtMostOneMode ==
  /\ ~(listening /\ isLoading)
  /\ ~(isLoading /\ isSpeaking)
  /\ ~(isSpeaking /\ listening)

\* C3: a step that starts a capture has cancelled synthesis earlier in the
\* same step, with no utterance handed to the synthesizer in between, so the
\* capture starts, and listening becomes true, with no utterance queued.
C3_CancelBeforeStart ==
  \A k \in 1..Len(calls) :
    calls[k].op = "start" =>
      /\ \E j \in 1..(k - 1) :
           /\ calls[j].op = "cancel"
           /\ \A m \in (j + 1)..(k - 1) : calls[m].op # "speak"
      /\ \A m \in (k + 1)..Len(calls) : calls[m].op # "speak"
      /\ synthQueue = <<>>
      /\ listening

\* a capture started over an utterance that the step cancelled
C3_Witness ==
  /\ calls = <<Did("cancel"), Did("start")>>
  /\ cancelEvents > 0
  /\ listening
  /\ recognitionRef.state = "active"

\* C4: after a language change, no generation request and no utterance is
\* started for a language other than the selected one.
C4_NoOldLanguageStarted ==
  \A k \in 1..Len(calls) :
    calls[k].op \in {"fetch", "speak"} => calls[k].lang = selectedLanguage

\* C5: while the response text is not replaced and the session and the
\* language stay as they are, no step halts the reveal: a pending reveal
\* timer with characters left is still pending after the step, or its
\* successor is.
C5_RevealNotHalted ==
  [][\A t \in timers :
       (/\ t.text = aiResponse /\ aiResponse' = aiResponse
        /\ t.i < Len(t.text)
        /\ mounted' /\ status = "authenticated" /\ status' = "authenticated"
        /\ selectedLanguage' = selectedLanguage)
       => \E u \in timers' : u.text = t.text /\ u.i >= t.i]_vars

\* C6: at most one reveal timer is pending and it belongs to the current
\* response text; the step that changes the response text leaves no timer
\* of the old reveal and has reset the displayed text to empty before the
\* first character of the new reveal.
C6_SingleRevealTimer ==
  /\ [](/\ Cardinality(timers) <= 1
        /\ \A t \in timers : t.text = aiResponse /\ typingTimeoutRef = t)
  /\ [][(aiResponse' # aiResponse /\ mounted') =>
         /\ \A t \in timers' : t.text = aiResponse' /\ t.i = 1
         /\ aiResponse' # <<>> =>
              displayedAiResponse' \in
                {charAt(aiResponse', 0), charAt(aiResponse', 1)}]_vars

\* a new reveal has replaced the reveal of the greeting
C6_Witness ==
  /\ aiResponse = ThinkingText
  /\ timers = {[text |-> ThinkingText, i |-> 1]}
  /\ Len(displayedAiResponse) <= 1

\* C7: the displayed text is a prefix of the current response text.
C7_DisplayedIsPrefix ==
  mounted =>
    /\ Len(displayedAiResponse) <= Len(aiResponse)
    /\ displayedAiResponse = SubSeq(aiResponse, 1, Len(displayedAiResponse))

\* C8: a 2xx backend reply whose payload has no text to extract, or an empty
\* or whitespace-only text, is answered with status 200 and the fixed
\* fallback message, unless the insert fails.
C8_MalformedPayloadFallback ==
  \A id \in 1..MaxHandlers :
    LET h == handlers[id]
    IN (/\ h.pc = "done" /\ h.backendOk /\ h.error \notin {"json", "insert"}
        /\ (h.result.shape # "text" \/ trim(h.result.text) = <<>>))
       => h.status = 200 /\ h.message = FallbackMessage

\* C9: the message of a 200 reply that carries a generated text is the
\* trimmed text, its first character in upper case when the output
\* language is en-US.
C9_TrimmedAndCapitalised ==
  \A id \in 1..MaxHandlers :
    LET h == handlers[id]
        t == trim(h.result.text)
    IN (h.status = 200 /\ h.result.shape = "text" /\ t # <<>>)
       => h.message = IF h.outputLanguage = "en-US"
                      THEN <<toUpperCase(t[1])>> \o Tail(t)
                      ELSE t

\* C10: a request has at most one document; it has one only after the
\* backend succeeded and the message was computed; a request answered 200
\* has exactly one, which holds the message of the reply.
C10_OneInsertPerSuccess ==
  \A id \in 1..MaxHandlers :
    LET h == handlers[id]
        docs == {d \in BagToSet(interactions) : d.request = id}
    IN /\ Cardinality(docs) <= 1
       /\ \A d \in docs : CopiesIn(d, interactions) = 1
       /\ docs # {} => h.backendOk /\ h.pc = "done" /\ h.status = 200
       /\ h.status = 200 =>
            \E userId \in UserIds :
              docs = {[request |-> id, userId |-> userId,
                       aiResponse |-> h.message]}

\* two requests were answered 200, each with its document
C10_Witness ==
  /\ \A id \in 1..MaxHandlers : handlers[id].status = 200
  /\ BagCardinality(interactions) = MaxHandlers
  /\ \E id \in 1..MaxHandlers : handlers[id].message # FallbackMessage

\* C11: a request whose insert failed, after its message was produced, is
\* still answered with status 200 and that message.
C11_PersistenceFailureStillOk ==
  \A id \in 1..MaxHandlers :
    LET h == handlers[id]
    IN (h.pc = "done" /\ h.error = "insert")
       => h.status = 200 /\ h.message = h.aiMotivationalMessage

\* C12: the step in which the statistics refresh of a request settles leaves
\* the response text as it is and hands nothing to the synthesizer.
C12_StatsFailureSwallowed ==
  [][(\E r \in BagToSet(requests) :
        r.stage = "stats" /\ CopiesIn(r, requests') < CopiesIn(r, requests))
     => /\ aiResponse' = aiResponse
        /\ \A k \in 1..Len(calls') : calls'[k].op # "speak"]_vars

\* C13: a usage counter that holds a known value is never reset to unknown.
C13_CountersNotReset ==
  [][mounted' =>
       /\ (totalUsers # Unknown => totalUsers' # Unknown)
       /\ (totalQueries # Unknown => totalQueries' # Unknown)]_vars

\* C14: the text shown after a failed generation request does not depend on
\* the error: no token of the response text is the detail of an error.
C14_NoErrorDetailShown ==
  mounted => \A k \in 1..Len(aiResponse) : aiResponse[k] \notin GenErrors

\* C15: the step in which a generation request fails leaves isLoading false,
\* and what it hands to the synthesizer is the fixed phrase SorrySpoken.
C15_FixedPhraseOnFailure ==
  [][(/\ \E r \in BagToSet(requests) :
           r.stage = "generate" /\ CopiesIn(r, requests') < CopiesIn(r, requests)
      /\ BagCardinality(requests') < BagCardinality(requests))
     => /\ mounted' => ~isLoading'
        /\ \A k \in 1..Len(calls') :
             calls'[k].op = "speak" => calls'[k].text = SorrySpoken
        /\ synthRef => \E k \in 1..Len(calls') : calls'[k].op = "speak"]_vars

\* a generation request failed with status 500 and the phrase was spoken
C15_Witness ==
  /\ aiResponse = SorryText("500")
  /\ ~isLoading
  /\ requests = EmptyBag
  /\ \E k \in 1..Len(calls) :
       calls[k].op = "speak" /\ calls[k].text = SorrySpoken

\* C16: the step in which stop cancels synthesis leaves isSpeaking false, no
\* utterance queued and no reveal timer pending.
C16_StopClearsReveal ==
  [][calls' = <<Did("cancel")>> =>
       /\ ~isSpeaking'
       /\ synthQueue' = <<>>
       /\ timers' = {}]_vars

\* C17: once the user issues no further action, the mounted client reaches
\* Idle, listening, isLoading and isSpeaking all false, and stays there.
C17_EventuallyIdle ==
  userDone ~> [](~mounted \/ (~listening /\ ~isLoading /\ ~isSpeaking))

\* Idle after a failed generation request, the user gone
C17_Witness ==
  /\ userDone /\ mounted
  /\ ~listening /\ ~isLoading /\ ~isSpeaking
  /\ aiResponse = SorryText("500")
  /\ requests = EmptyBag /\ synthQueue = <<>> /\ cancelEvents = 0

\* C18: after the component is unmounted, no step hands an utterance to the
\* synthesizer and none sends a generation request.
C18_NothingAfterTeardown ==
  ~mounted => \A k \in 1..Len(calls) : calls[k].op \notin {"speak", "fetch"}

\* C19: a voice enumeration event that arrives while a voice is selected
\* leaves the selected voice unchanged.
C19_SelectionKept ==
  [][(platformVoices' # platformVoices /\ selectedVoiceURI # "" /\ mounted')
     => selectedVoiceURI' = selectedVoiceURI]_vars

\* C20: the voice of an utterance is the selected voice if it is in the list
\* and its language is the requested one; otherwise the first voice of the
\* requested language; otherwise the first voice of the list.
C20_VoicePolicy ==
  LET list == utterance.voices
      S == {k \in 1..Len(list) :
              /\ list[k].uri = utterance.selectedVoiceURI
              /\ list[k].lang = utterance.selectedLanguage}
      L == {k \in 1..Len(list) : list[k].lang = utterance.selectedLanguage}
      first(T) == CHOOSE k \in T : \A j \in T : k <= j
  IN list # <<>> =>
       utterance.voice = IF S # {} THEN list[first(S)].uri
                         ELSE IF L # {} THEN list[first(L)].uri
                         ELSE list[1].uri

\* ---------------------------------------------------------------- C21
\* the positions of the voices of a language in an enumeration, and the
\* smallest of a non-empty set of positions
C21_OfLanguage(list, lang) == {k \in 1..Len(list) : list[k].lang = lang}

C21_Least(S) == CHOOSE k \in S : \A j \in S : k <= j

\* an enumeration event arrives while the handler is registered and no voice
\* is selected
C21_LatePopulation ==
  /\ platformVoices' # platformVoices
  /\ onvoiceschanged /\ mounted /\ synthRef
  /\ selectedVoiceURI = ""

C22_VoiceResetOnLanguageChange ==
  [][selectedLanguage' # selectedLanguage =>
       LET L == C21_OfLanguage(platformVoices', selectedLanguage')
       IN \/ selectedVoiceURI' = ""
          \/ /\ L # {}
             /\ \E k \in L : selectedVoiceURI' = platformVoices'[k].uri
          \/ /\ L = {} /\ platformVoices' # <<>>
             /\ selectedVoiceURI' = platformVoices'[1].uri]_vars

\* the language was changed to one without a voice while both voices were
\* enumerated: the selection is the first voice, not the Google voice that was
\* the default of the previous language
C22_Witness ==
  /\ mounted
  /\ selectedLanguage = "mr-IN"
  /\ voices = VoiceList
  /\ C21_OfLanguage(VoiceList, "mr-IN") = {}
  /\ selectedVoiceURI = VoiceList[1].uri

\* ---------------------------------------------------------------- C23
\* C23: at most one utterance is active or queued on the synthesis channel
\* at any time, whatever the sequence of speak calls.
C23_AtMostOneUtterance == Len(synthQueue) <= 1

\* ---------------------------------------------------------------- C24
\* C24: a capture delivers at most one transcript between its start and its
\* end, and a generation request is sent only by the delivery of a final
\* result, with the first alternative of that result as its transcript; an
\* interim result sends none.
C24_OneTranscriptPerCapture ==
  /\ recognitionRef.sent <= 1
  /\ \A r \in BagToSet(oldRecognitions) : r.sent <= 1
  /\ \A k \in 1..Len(calls) :
       calls[k].op = "fetch" =>
         /\ k > 1
         /\ calls[k - 1].op = "result"
         /\ calls[k].text = FinalResult.alternatives[1]
         /\ \A j \in 1..Len(calls) : calls[j].op = "fetch" => j = k

\* the capture has delivered its final result, whose first alternative went
\* into the one request of the step, and is ending
C24_Witness ==
  /\ mounted
  /\ recognitionRef.state = "ending" /\ recognitionRef.sent = 1
  /\ Len(calls) = 2
  /\ calls[1].op = "result" /\ calls[2].op = "fetch"
  /\ calls[2].text = <<"h", "i">>
  /\ BagCardinality(requests) = 1

\* ---------------------------------------------------------------- C25
\* the generation requests a step sent, and the requests awaiting the reply
\* of /api/motivate
C25_Sent(log) == Cardinality({k \in 1..Len(log) : log[k].op = "fetch"})

C25_Awaited(reqs) ==
  BagCardinality(reqs) - CopiesIn([stage |-> "stats", lang |-> "en-US"], reqs)
                       - CopiesIn([stage |-> "stats", lang |-> "mr-IN"], reqs)

\* C25: a step sends exactly one generation request if it delivers a final
\* transcript and none otherwise: the step of a failed request (non-success
\* status or network failure) sends none, so a request is never re-sent
\* without a new capture.
C25_OneRequestPerTranscript ==
  [][/\ C25_Sent(calls') =
          IF calls' # <<>> /\ calls'[1].op = "result" THEN 1 ELSE 0
     /\ C25_Awaited(requests') <= C25_Awaited(requests) + C25_Sent(calls')
     /\ C25_Awaited(requests') < C25_Awaited(requests) => C25_Sent(calls') = 0
    ]_vars

\* a request has failed: its step spoke the error phrase, sent nothing and
\* left no request behind
C25_Witness ==
  /\ mounted /\ ~isLoading
  /\ requests = EmptyBag
  /\ \E d \in GenErrors : aiResponse = SorryText(d)
  /\ \E k \in 1..Len(calls) : calls[k].op = "speak" /\ calls[k].text = SorrySpoken
  /\ C25_Sent(calls) = 0

\* ---------------------------------------------------------------- C26
\* C26: the step of a capture error leaves listening false and starts no
\* recognition, and once the user has left the controls alone no step starts
\* one: the capture is started again by the user only.
C26_NoRestartAfterError ==
  /\ (\E k \in 1..Len(calls), reason \in RecErrors :
        calls[k].op = "speak" /\ calls[k].text = RecErrText(reason))
       => /\ mounted => ~listening
          /\ \A k \in 1..Len(calls) : calls[k].op # "start"
  /\ userDone => \A k \in 1..Len(calls) : calls[k].op # "start"

\* a capture failed after the user left: the error is shown and spoken, the
\* recognition is ending and nothing listens
C26_Witness ==
  /\ userDone /\ mounted
  /\ ~listening
  /\ recognitionRef.state = "ending" /\ recognitionRef.sent = 0
  /\ aiResponse = RecErrText("no-speech")
  /\ \E k \in 1..Len(calls) :
       calls[k].op = "speak" /\ calls[k].text = RecErrText("no-speech")

\* ---------------------------------------------------------------- C27
\* the capture of the current recognition fails in this step: it was started
\* and is ending without having delivered a result
C27_CaptureError ==
  /\ recognitionRef.state \in {"active", "stopping"}
  /\ recognitionRef'.state = "ending"
  /\ recognitionRef'.sent = recognitionRef.sent

\* the capture the user stopped delivers a result in this step
C27_ResultAfterStop ==
  /\ recognitionRef.state = "stopping"
  /\ recognitionRef'.sent > recognitionRef.sent

\* C27: the step of a capture error, and a step of a capture the user
\* stopped, sends no generation request and hands no utterance to the
\* synthesizer.
C27_StoppedOrFailedCaptureIsSilent ==
  [][C27_CaptureError \/ C27_ResultAfterStop =>
       \A k \in 1..Len(calls') : calls'[k].op \notin {"fetch", "speak"}]_vars

\* ---------------------------------------------------------------- C28
\* C28: in a state whose session status is loading or unauthenticated, once
\* the initialisation effect has run for that status, the step that led to it
\* started no capture, spoke no utterance and sent no generation request.
C28_NothingWhileNotAuthenticated ==
  (mounted /\ status # "authenticated" /\ ~effectPending)
    => \A k \in 1..Len(calls) : calls[k].op \notin {"start", "speak", "fetch"}

\* ---------------------------------------------------------------- C29
\* a generation request succeeds in this step: its statistics fetch follows
C29_Success ==
  /\ C25_Awaited(requests') < C25_Awaited(requests)
  /\ BagCardinality(requests') = BagCardinality(requests)

C29_Spoken(log) == Cardinality({k \in 1..Len(log) : log[k].op = "speak"})

\* C29: in the step of a successful generation request the string handed to
\* the synthesizer is the string set as the full text of the reveal: one
\* utterance is spoken where a synthesizer exists, and its text is the new
\* response text.
C29_SpokenIsDisplayed ==
  [][C29_Success =>
       /\ \A k \in 1..Len(calls') :
            calls'[k].op = "speak" => (mounted' => calls'[k].text = aiResponse')
       /\ synthRef => C29_Spoken(calls') = 1]_vars

\* a reply with a message has arrived: the message is the response text and
\* the text of the utterance of the step
C29_Witness ==
  /\ mounted
  /\ aiResponse = <<"Ge", "t">>
  /\ \E r \in BagToSet(requests) : r.stage = "stats"
  /\ \E k \in 1..Len(calls) :
       calls[k].op = "speak" /\ calls[k].text = <<"Ge", "t">>

\* ---------------------------------------------------------------- C30
\* C30: one language tag is used throughout a turn: the request a result
\* sends carries the language the recognition was started with, and the
\* utterance spoken when that request ends, with its response or with the
\* error phrase, carries the language of the request, whatever language is
\* selected by then.
C30_OneLanguagePerTurn ==
  [][/\ \A k \in 1..Len(calls') :
          calls'[k].op = "fetch" =>
            /\ k > 1
            /\ calls'[k - 1].op = "result"
            /\ calls'[k - 1].lang = calls'[k].lang
     /\ (C25_Awaited(requests') < C25_Awaited(requests)
           \/ BagCardinality(requests') < BagCardinality(requests))
          => \A k \in 1..Len(calls') :
               calls'[k].op = "speak" =>
                 \E r \in BagToSet(requests) : r.lang = calls'[k].lang
    ]_vars

\* a result of a capture started under en-US has just sent its request after
\* the language was changed to mr-IN: the request carries en-US
C30_Witness ==
  /\ mounted
  /\ selectedLanguage = "mr-IN"
  /\ Len(calls) = 2
  /\ calls[1].op = "result" /\ calls[1].lang = "en-US"
  /\ calls[2].op = "fetch" /\ calls[2].lang = "en-US"
  /\ [stage |-> "generate", lang |-> "en-US"] \in BagToSet(requests)

\* ---------------------------------------------------------------- C31
\* the first whitespace-delimited token of a text: what precedes its first
\* space or tab
C31_FirstToken(text) ==
  LET S == {k \in 1..Len(text) : text[k] \in {" ", "\t"}}
  IN IF S = {} THEN text
     ELSE SubSeq(text, 1, (CHOOSE k \in S : \A j \in S : k <= j) - 1)

\* C31: the first name of the prompt is the first whitespace-delimited token
\* of userName, and for an absent, an empty or the placeholder userName the
\* first name and the greeting phrase are empty.
C31_FirstNameIsFirstToken ==
  LET n == greeting.userName
  IN IF ~n.present \/ n.text = <<>> \/ n.text = Guest
     THEN greeting.userFirstName = <<>> /\ greeting.greetingPhrase = <<>>
     ELSE greeting.userFirstName = C31_FirstToken(n.text)

\* ---------------------------------------------------------------- C32
\* C32: once the generation request has resolved successfully, with the
\* response text set and the utterance handed over, isLoading is false: it
\* does not stay true while the statistics request is awaited.
C32_LoadingEndsWithResponse ==
  (mounted /\ \E r \in BagToSet(requests) : r.stage = "stats") => ~isLoading

\* ---------------------------------------------------------------- C33
\* C33: whenever a generation request is in flight, isLoading is true.
C33_LoadingWhileInFlight ==
  (mounted /\ C25_Awaited(requests) > 0) => isLoading

\* ---------------------------------------------------------------- C35
\* C35: at most one generation request is in flight at any time.
C35_OneRequestInFlight == C25_Awaited(requests) <= 1

\* ---------------------------------------------------------------- C34
\* C34: a successful statistics response never reports more users than
\* queries: its totalUsers, the number of distinct userId values of the
\* interaction records, does not exceed its totalQueries, their number.
C34_UsersWithinQueries ==
  stats.status = 200 => stats.totalUsers <= stats.totalQueries

\* ---------------------------------------------------------------- C36
\* C36: whenever an utterance has started and has neither ended nor failed,
\* isSpeaking is true.
C36_SpeakingWhileUtterancePlays ==
  (mounted /\ synthQueue # <<>> /\ synthQueue[1].started) => isSpeaking

\* ---------------------------------------------------------------- C37
\* a voice selection of the user, with the language, the session status and
\* the mount unchanged: the effect that ran in the step closed over the new
\* selection
C37_VoiceStepAlone ==
  /\ selectedVoiceURI' # selectedVoiceURI
  /\ selectedVoiceURI' # ""
  /\ effectClosure'.voice = selectedVoiceURI'
  /\ selectedLanguage' = selectedLanguage
  /\ status' = status
  /\ mounted /\ mounted'

\* C37: a user voice selection alone cancels no utterance and clears no
\* pending reveal timer.
C37_VoiceStepTearsNothingDown ==
  [][C37_VoiceStepAlone =>
       /\ \A k \in 1..Len(calls') : calls'[k].op # "cancel"
       /\ synthQueue' = synthQueue
       /\ typingTimeoutRef' = typingTimeoutRef]_vars

\* ---------------------------------------------------------------- C38
\* the initialisation effect has nothing left to update: the stored voice
\* list is the platform's, and the last run closed over the current language
\* and voice
C38_UpToDate ==
  /\ mounted /\ status = "authenticated"
  /\ hasCleanup
  /\ voices = platformVoices
  /\ effectClosure = [lang |-> selectedLanguage, voice |-> selectedVoiceURI]

\* C38: the initialisation effect does not re-trigger itself: a run that
\* finds the voice list, the language and the voice as its previous run
\* left them leaves no further run pending.
C38_EffectSettles ==
  [][(C38_UpToDate /\ RunInitialisationEffect) => ~effectPending']_vars

\* ---------------------------------------------------------------- C39
\* C39: a request to /api/motivate with a method other than POST is answered
\* 405 and a POST without a prompt 400, in both cases at once, with no call
\* of the generation backend and no interaction record of the request; a
\* request to /api/stats with a method other than GET is answered 405 with no
\* read of the collection.
C39_RejectedWithoutEffect ==
  /\ \A id \in 1..MaxHandlers :
       LET h == handlers[id]
           rejected == /\ h.pc = "done"
                       /\ ~h.fetched
                       /\ \A d \in BagToSet(interactions) : d.request # id
       IN h.pc # "idle" =>
            /\ h.method # "POST" => h.status = 405 /\ rejected
            /\ (h.method = "POST" /\ ~h.prompt) => h.status = 400 /\ rejected
            /\ (h.method = "POST" /\ h.prompt) => h.status \notin {400, 405}
  /\ stats.pc # "idle" =>
       /\ stats.method # "GET" =>
            stats.pc = "done" /\ stats.status = 405 /\ stats.reads = 0
       /\ stats.method = "GET" => stats.status # 405

\* a GET with a prompt and a POST without one were sent to /api/motivate and
\* a POST to /api/stats: all three are answered and the collection is empty
C39_Witness ==
  /\ \E id \in 1..MaxHandlers :
       /\ handlers[id].method = "GET" /\ handlers[id].prompt
       /\ handlers[id].status = 405
  /\ \E id \in 1..MaxHandlers :
       /\ handlers[id].method = "POST" /\ ~handlers[id].prompt
       /\ handlers[id].status = 400
  /\ stats.method = "POST" /\ stats.status = 405 /\ stats.reads = 0
  /\ interactions = EmptyBag
====
